---- MODULE Spec2Model ----
(***************************************************************************)
(* Model of raspbian-buster-gcc-8-cross-environment-install.py: a          *)
(* sequential provisioning script.  main() calls six functions in order;   *)
(* every privileged step goes through c(), which raises on a non-zero      *)
(* exit status.  Pure text/path transformations (the specs rewrite and the *)
(* symlink relativization) are operators computed as the script computes   *)
(* them.                                                                   *)
(*                                                                         *)
(* Texts the script matches with regular expressions are sequences of      *)
(* one-character strings, so that the regular expressions are evaluated    *)
(* character by character.  Paths are pathlib "parts" sequences: an        *)
(* absolute path starts with the part "/".                                 *)
(***************************************************************************)
EXTENDS Integers, Sequences, FiniteSets, TLC

VARIABLES
    pc,        \* line of main()'s next statement ("L61", ...), or "done"
    run,       \* number of this invocation of the script (or of the function)
    aborted,   \* a CalledProcessError has propagated out of main()
    rc,        \* exit status of the last command run by c() in this invocation
    cmds,      \* command lines c() has executed in this invocation, in order
    stages,    \* functions of main() that have returned in this invocation
    todo,      \* entries the rglob("*") of fix_absolute_links has yet to yield
    host,      \* the host: packages, files, the chroot tree, the compiler's specs
    host0,     \* the host as it was when this invocation started
    outcomes   \* the earlier invocations: how each ended, on what host, its commands

vars == <<pc, run, aborted, rc, cmds, stages, todo, host, host0, outcomes>>

---------------------------------------------------------------------------
(* Bounds of the model *)

MaxRuns == 2     \* invocations of the script (or calls of one function)
MaxDepth == 3    \* directory levels of a link below the chroot root
MaxLinks == 2    \* entries of the drawn tree under <root>/lib
MaxLen == 4      \* characters of the drawn -dumpspecs text

---------------------------------------------------------------------------
(* Strings *)

RECURSIVE Str(_)
\* "".join(chars)
Str(chars) == IF chars = <<>> THEN "" ELSE Head(chars) \o Str(Tail(chars))

RECURSIVE JoinWith(_, _)
\* sep.join(parts)
JoinWith(parts, sep) ==
    IF parts = <<>> THEN ""
    ELSE IF Len(parts) = 1 THEN parts[1]
    ELSE parts[1] \o sep \o JoinWith(Tail(parts), sep)

\* str(Path(parts)): the root part "/" is not followed by a second slash
PathStr(parts) ==
    IF parts # <<>> /\ Head(parts) = "/"
    THEN "/" \o JoinWith(Tail(parts), "/")
    ELSE JoinWith(parts, "/")

\* Path.is_absolute()
IsAbsolute(parts) == parts # <<>> /\ Head(parts) = "/"

\* "/var/chroot/raspbian_buster_armhf": the chroot root, as parts below "/"
RootDirs == <<"var", "chroot", "raspbian_buster_armhf">>

RootParts == <<"/">> \o RootDirs

Digits == {"0", "1", "2", "3", "4", "5", "6", "7", "8", "9"}

\* the characters of \w that occur in the modelled texts
WordChars == Digits \cup {"a", "b", "c", "i", "l", "m", "o", "r", "s", "t", "D", "_"}

---------------------------------------------------------------------------
(* fix_absolute_links: classification and relativization (lines 118-133) *)

\* re.match(r".*(?:(?:\.so(?:\.\d+)?)|(?:\.a))$", path.name) is not None:
\* some suffix of the name is ".so", ".so.<digits>" or ".a"
NameMatches(name) ==
    \E i \in 1..Len(name) :
        LET suf == SubSeq(name, i, Len(name)) IN
            \/ suf = <<".", "s", "o">>
            \/ suf = <<".", "a">>
            \/ /\ Len(suf) >= 5
               /\ SubSeq(suf, 1, 4) = <<".", "s", "o", ".">>
               /\ \A k \in 5..Len(suf) : suf[k] \in Digits

RECURSIVE RemoveRoot(_)
\* str.replace("/var/chroot/raspbian_buster_armhf", "") on the directories of
\* an absolute path (given without the leading "/"): every occurrence of the
\* three root components goes
RemoveRoot(ds) ==
    IF Len(ds) < Len(RootDirs) THEN ds
    ELSE IF SubSeq(ds, 1, Len(RootDirs)) = RootDirs
         THEN RemoveRoot(SubSeq(ds, Len(RootDirs) + 1, Len(ds)))
         ELSE <<Head(ds)>> \o RemoveRoot(Tail(ds))

\* Path(str(path).replace(root, "")).parent.parts, for path = dir/name
StrippedParentParts(dir) == <<"/">> \o RemoveRoot(Tail(dir))

\* as UpCount, without the "- 1" that discounts the root part "/"
UpCountWithRoot(dir) == Len(StrippedParentParts(dir))

\* len(...parent.parts) - 1: the number of "../" the new target starts with
UpCount(dir) == Len(StrippedParentParts(dir)) - 1

\* as Lstrip, without the lstrip("/")
LstripNothing(target) == target

\* str(link_target).lstrip("/"), as parts
Lstrip(target) == IF IsAbsolute(target) THEN Tail(target) ELSE target

\* rel_link_target (line 129), as the parts of the path the string denotes
RelLinkTarget(dir, target) ==
    [k \in 1..UpCount(dir) |-> ".."] \o Lstrip(target)

\* rel_link_target (line 129), as the string the f-string of line 133 embeds
RelLinkTargetStr(dir, target) ==
    Str([k \in 1..UpCount(dir) |-> "../"]) \o JoinWith(Lstrip(target), "/")

\* as Eligible, without the is_absolute() test of lines 127-128
EligibleAnyTarget(path, entry) ==
    /\ entry.symlink
    /\ NameMatches(path.name)

\* the three tests of lines 120-128: a symlink, a matching name, an absolute target
Eligible(path, entry) ==
    /\ entry.symlink
    /\ NameMatches(path.name)
    /\ IsAbsolute(entry.target)

\* the command line of line 133
LnCommand(path, entry) ==
    "cd " \o PathStr(path.dir) \o " && sudo ln -fs "
          \o RelLinkTargetStr(path.dir, entry.target) \o " " \o Str(path.name)

---------------------------------------------------------------------------
(* write_gcc_specs: the text rewrite (lines 93-106) *)

\* ld_search_paths (lines 164-167).  Its text holds no "." and so no match
\* of \w+\.o; it is kept as one piece up to its last character "8", which
\* is a word character and can start a match with the text that follows.
ld_search_paths ==
    << "-L/var/chroot/raspbian_buster_armhf/lib -L/var/chroot/raspbian_buster_armhf/lib/arm-linux-gnueabihf "
       \o "-L/var/chroot/raspbian_buster_armhf/usr/lib -L/var/chroot/raspbian_buster_armhf/usr/lib/arm-linux-gnueabihf "
       \o "-L/var/chroot/raspbian_buster_armhf/usr/lib/arm-linux-gnueabihf "
       \o "-L/var/chroot/raspbian_buster_armhf/usr/lib/gcc/arm-linux-gnueabihf/",
       "8" >>

RECURSIVE ReplaceD(_)
\* specs.replace("%D", ld_search_paths) (line 94)
ReplaceD(s) ==
    IF s = <<>> THEN <<>>
    ELSE IF Len(s) >= 2 /\ s[1] = "%" /\ s[2] = "D"
         THEN ld_search_paths \o ReplaceD(SubSeq(s, 3, Len(s)))
         ELSE <<Head(s)>> \o ReplaceD(Tail(s))

\* Path(root).rglob(obj): the files of the tree named obj, in traversal order
\* (obj is made of word characters and "." only, so the pattern is a literal)
Rglob(objs, obj) == SelectSeq(objs, LAMBDA f : f.name = obj)

\* str(path) of a file of the tree
ObjAbsolute(f) == PathStr(RootParts \o f.dir \o <<Str(f.name)>>)

\* as replace_with_path, returning the matched token in either case
replace_with_token(objs, obj) == obj

\* replace_with_path (lines 96-104): the first match's absolute path, or the
\* token itself when next() raises StopIteration
replace_with_path(objs, obj) ==
    IF Rglob(objs, obj) = <<>> THEN obj
    ELSE <<ObjAbsolute(Head(Rglob(objs, obj)))>>

\* the end of the run of word characters that starts at i
RECURSIVE WordEnd(_, _)
WordEnd(s, i) ==
    IF i <= Len(s) /\ s[i] \in WordChars THEN WordEnd(s, i + 1) ELSE i

RECURSIVE ReSub(_, _, _)
\* re.sub(r"\w+\.o", replace_with_path, specs) (line 106), from position i:
\* leftmost non-overlapping matches, \w+ greedy
ReSub(objs, s, i) ==
    IF i > Len(s) THEN <<>>
    ELSE IF s[i] \notin WordChars THEN <<s[i]>> \o ReSub(objs, s, i + 1)
    ELSE LET k == WordEnd(s, i) IN
         IF k + 1 <= Len(s) /\ s[k] = "." /\ s[k + 1] = "o"
         THEN replace_with_path(objs, SubSeq(s, i, k + 1)) \o ReSub(objs, s, k + 2)
         ELSE SubSeq(s, i, k - 1) \o ReSub(objs, s, k)

\* the text write_gcc_specs writes (lines 93-106)
RewriteSpecs(objs, dump) == ReSub(objs, ReplaceD(dump), 1)

---------------------------------------------------------------------------
(* Texts the script writes *)

\* cmake_toolchain_text (lines 143-162), line by line
cmake_toolchain_text ==
    << "",
       "set(CMAKE_SYSTEM_NAME Linux)",
       "set(CMAKE_SYSTEM_PROCESSOR arm)",
       "",
       "set(CMAKE_SYSROOT /var/chroot/raspbian_buster_armhf)",
       "",
       "set(CMAKE_C_COMPILER /usr/bin/arm-linux-gnueabihf-gcc-8)",
       "set(CMAKE_CXX_COMPILER /usr/bin/arm-linux-gnueabihf-g++-8)",
       "set(CMAKE_C_FLAGS \" -mcpu=arm1176jzf-s -mtune=arm1176jzf-s  -isystem=/var/chroot/raspbian_buster_armhf  -march=armv6 -mfpu=vfp -mfloat-abi=hard -marm -D__GCC_HAVE_SYNC_COMPARE_AND_SWAP_1 -D__GCC_HAVE_SYNC_COMPARE_AND_SWAP_2 -D__GCC_HAVE_SYNC_COMPARE_AND_SWAP_8 -D__ARM_FEATURE_LDREX=4 -D__GCC_ATOMIC_BOOL_LOCK_FREE=1 -D__GCC_ATOMIC_CHAR_LOCK_FREE=1 -D__GCC_ATOMIC_CHAR16_T_LOCK_FREE=1 -D__GCC_ATOMIC_LLONG_LOCK_FREE=1 -D__GCC_ATOMIC_SHORT_LOCK_FREE=1 -D__pic__ -D__PIC__ -D__pie__ -D__PIE__ -Wl,--sysroot=/var/chroot/raspbian_buster_armhf -specs=/opt/toolchains/gcc-8-armv6-specs.txt  \" )",
       "set(CMAKE_CXX_FLAGS \"-mcpu=arm1176jzf-s -mtune=arm1176jzf-s  -isystem=/var/chroot/raspbian_buster_armhf  -march=armv6 -mfpu=vfp -mfloat-abi=hard -marm -D__GCC_HAVE_SYNC_COMPARE_AND_SWAP_1 -D__GCC_HAVE_SYNC_COMPARE_AND_SWAP_2 -D__GCC_HAVE_SYNC_COMPARE_AND_SWAP_8 -D__ARM_FEATURE_LDREX=4 -D__GCC_ATOMIC_BOOL_LOCK_FREE=1 -D__GCC_ATOMIC_CHAR_LOCK_FREE=1 -D__GCC_ATOMIC_CHAR16_T_LOCK_FREE=1 -D__GCC_ATOMIC_LLONG_LOCK_FREE=1 -D__GCC_ATOMIC_SHORT_LOCK_FREE=1 -D__pic__ -D__PIC__ -D__pie__ -D__PIE__  -Wl,--sysroot=/var/chroot/raspbian_buster_armhf -specs=/opt/toolchains/gcc-8-armv6-specs.txt \" )",
       "",
       "",
       "set(CMAKE_FIND_ROOT_PATH_MODE_PROGRAM NEVER)",
       "set(CMAKE_FIND_ROOT_PATH_MODE_LIBRARY ONLY)",
       "set(CMAKE_FIND_ROOT_PATH_MODE_INCLUDE ONLY)",
       "set(CMAKE_FIND_ROOT_PATH_MODE_PACKAGE ONLY)",
       "",
       "",
       "" >>

\* schroot_config (lines 169-177), cut at its two "{user}" fields
schroot_config ==
    << "\n[raspbian_buster_armhf]\ndescription=Raspbian Buster armhf chroot\ntype=directory\ndirectory=/var/chroot/raspbian_buster_armhf\nusers=",
       "{user}",
       "\nroot-groups=root,",
       "{user}",
       "\n" >>

\* schroot_config.replace("{user}", username) (line 81)
schroot_config2(username) ==
    [k \in 1..Len(schroot_config) |->
        IF schroot_config[k] = "{user}" THEN username ELSE schroot_config[k]]

\* the two adjacent string literals of lines 62-63, word by word with their
\* blanks: the first ends in "build-essential", the second starts with
\* "qemu-user-static", and neither has a blank there
AptInstallLiteral1 ==
    << "sudo", " ", "apt", " ", "install", " ", "-y", " ",
       "gcc-8-arm-linux-gnueabihf", " ", "g++-8-arm-linux-gnueabihf", " ",
       "cmake", " ", "build-essential" >>

AptInstallLiteral2 ==
    << "qemu-user-static", " ", "binfmt-support", " ", "debootstrap", " ", "schroot" >>

\* Python joins adjacent string literals with nothing in between
AptInstallCmd == AptInstallLiteral1 \o AptInstallLiteral2

RECURSIVE ShellWords(_, _)
\* the shell's word splitting of a command line given as pieces and blanks:
\* pieces with no blank between them are one word (cur is the word so far)
ShellWords(pieces, cur) ==
    IF pieces = <<>> THEN (IF cur = "" THEN <<>> ELSE <<cur>>)
    ELSE IF Head(pieces) = " "
         THEN (IF cur = "" THEN <<>> ELSE <<cur>>) \o ShellWords(Tail(pieces), "")
         ELSE ShellWords(Tail(pieces), cur \o Head(pieces))

\* the package names "apt install -y" is given: the words after "-y"
PackageArgs(cmd) ==
    LET w == ShellWords(cmd, "") IN {w[k] : k \in 5..Len(w)}

---------------------------------------------------------------------------
(* The host *)

TmpDir == "/tmp"
ToolchainDir == "/opt/toolchains"
SchrootDir == "/etc/schroot/chroot.d"

\* the files the script writes, as <<directory, name>>
FilePaths ==
    { <<TmpDir, "raspbian_buster_armhf">>, <<SchrootDir, "raspbian_buster_armhf">>,
      <<TmpDir, "gcc-8-armv6.cmake">>, <<ToolchainDir, "gcc-8-armv6.cmake">>,
      <<TmpDir, "gcc-8-armv6-specs.txt">>, <<ToolchainDir, "gcc-8-armv6-specs.txt">> }

NoFile == [exists |-> FALSE, data |-> <<>>]

File(data) == [exists |-> TRUE, data |-> data]

\* "sudo mv /tmp/<name> <dir>/": the file replaces any file of that name in dir
Mv(files, name, dir) ==
    [files EXCEPT ![<<dir, name>>] = files[<<TmpDir, name>>],
                  ![<<TmpDir, name>>] = NoFile]

\* with open("/tmp/<name>", "w") as f: f.write(data)
WriteTmp(files, name, data) == [files EXCEPT ![<<TmpDir, name>>] = File(data)]

Users == {"pi"}

libc_so == <<"l", "i", "b", "c", ".", "s", "o">>
libc_so_6 == <<"l", "i", "b", "c", ".", "s", "o", ".", "6">>
libc_so_6_1 == <<"l", "i", "b", "c", ".", "s", "o", ".", "6", ".", "1">>
libm_a == <<"l", "i", "b", "m", ".", "a">>
libso == <<"l", "i", "b", "s", "o">>
crt1_o == <<"c", "r", "t", "1", ".", "o">>

LibDir == RootParts \o <<"lib">>
ArchLibDir == RootParts \o <<"lib", "arm-linux-gnueabihf">>

RegularFile == [symlink |-> FALSE, target |-> <<>>]

Symlink(target) == [symlink |-> TRUE, target |-> target]

\* what the chroot holds under lib once its packages are installed: the
\* development link libc.so with an absolute target, the library itself and
\* a link that is relative already
ChrootLinks ==
    LET a == [dir |-> ArchLibDir, name |-> libc_so]
        b == [dir |-> ArchLibDir, name |-> libc_so_6]
        d == [dir |-> LibDir, name |-> libm_a]
    IN  [p \in {a, b, d} |->
            IF p = a THEN Symlink(<<"/", "lib", "arm-linux-gnueabihf", "libc.so.6">>)
            ELSE IF p = b THEN RegularFile
            ELSE Symlink(<<"arm-linux-gnueabihf", "libm.a">>)]

\* the startup object the chroot's packages install
ChrootObjs == << [dir |-> <<"usr", "lib", "arm-linux-gnueabihf">>, name |-> crt1_o] >>

\* what "arm-linux-gnueabihf-g++-8 -dumpspecs" prints, in short: the library
\* path placeholder, a startup object of the chroot, one that is not in it
DumpSpecs ==
    << "%", "D", " ", "c", "r", "t", "1", ".", "o", " ", "c", "r", "t", "i", ".", "o" >>

FreshHost(user) ==
    [ user      |-> user,
      aptIndex  |-> FALSE,
      pkgs      |-> {},
      keyring   |-> FALSE,
      deb       |-> FALSE,
      dirs      |-> {},
      chroot    |-> [bash |-> FALSE, qemu |-> FALSE, stage2 |-> FALSE,
                     aptIndex |-> FALSE, pkgs |-> FALSE],
      files     |-> [f \in FilePaths |-> NoFile],
      links     |-> [p \in {} |-> RegularFile],
      objs      |-> <<>>,
      dumpspecs |-> DumpSpecs ]

\* every eligible link of a tree rewritten as line 133 rewrites it
Relativized(links) ==
    [p \in DOMAIN links |->
        IF Eligible(p, links[p])
        THEN Symlink(RelLinkTarget(p.dir, links[p].target))
        ELSE links[p]]

\* the host after one run of main() in which every command succeeded
ProvisionedHost(user) ==
    [ user      |-> user,
      aptIndex  |-> TRUE,
      pkgs      |-> PackageArgs(AptInstallCmd),
      keyring   |-> TRUE,
      deb       |-> TRUE,
      dirs      |-> {ToolchainDir, "/var/chroot"},
      chroot    |-> [bash |-> TRUE, qemu |-> TRUE, stage2 |-> TRUE,
                     aptIndex |-> TRUE, pkgs |-> TRUE],
      files     |-> [f \in FilePaths |->
                        IF f = <<SchrootDir, "raspbian_buster_armhf">>
                            THEN File(schroot_config2(user))
                        ELSE IF f = <<ToolchainDir, "gcc-8-armv6.cmake">>
                            THEN File(cmake_toolchain_text)
                        ELSE IF f = <<ToolchainDir, "gcc-8-armv6-specs.txt">>
                            THEN File(RewriteSpecs(ChrootObjs, DumpSpecs))
                        ELSE NoFile],
      links     |-> Relativized(ChrootLinks),
      objs      |-> ChrootObjs,
      dumpspecs |-> DumpSpecs ]

---------------------------------------------------------------------------
(* main() and the command runner *)

\* main() (lines 135-141): the functions in the order it calls them
MainOrder ==
    << "install_host_deps", "install_chroot", "make_dirs",
       "write_cmake_toolchain", "write_gcc_specs", "fix_absolute_links" >>

\* the line of a function's first statement
Entry(fn) ==
    CASE fn = "install_host_deps"     -> "L61"
      [] fn = "install_chroot"        -> "L71"
      [] fn = "make_dirs"             -> "L66"
      [] fn = "write_cmake_toolchain" -> "L114"
      [] fn = "write_gcc_specs"       -> "L91"
      [] fn = "fix_absolute_links"    -> "L119"

\* where main() goes on when fn returns
After(fn) ==
    LET k == CHOOSE i \in 1..Len(MainOrder) : MainOrder[i] = fn IN
        IF k = Len(MainOrder) THEN "done" ELSE Entry(MainOrder[k + 1])

\* exit statuses a command may end with: success, or any failure
ExitStatuses == {0, 1}

\* as check_call, with subprocess.call: the status is returned, never raised
call_ignoring_status(status, effect, next, returned) ==
    /\ host' = (IF status = 0 THEN effect ELSE host)
    /\ pc' = next
    /\ stages' = stages \o returned
    /\ aborted' = FALSE

\* subprocess.check_call (line 55): status 0 returns, and the command has
\* had its effect; any other status raises CalledProcessError, which nothing
\* in the script catches.  returned is <<fn>> when the command is the last
\* statement of fn, <<>> otherwise.
check_call(status, effect, next, returned) ==
    IF status = 0
    THEN /\ host' = effect
         /\ pc' = next
         /\ stages' = stages \o returned
         /\ aborted' = FALSE
    ELSE /\ host' = host
         /\ pc' = pc
         /\ stages' = stages
         /\ aborted' = TRUE

\* c(cmd) (lines 54-55): run the command line through the shell
c(cmd, effect, next, returned) ==
    \E status \in ExitStatuses :
        /\ cmds' = Append(cmds, cmd)
        /\ rc' = status
        /\ check_call(status, effect, next, returned)

\* a statement of the script itself, which runs no command
Statement(effect, next, returned) ==
    /\ host' = effect
    /\ pc' = next
    /\ stages' = stages \o returned
    /\ UNCHANGED <<cmds, rc, aborted>>

\* install_host_deps (lines 60-63)
install_host_deps ==
    /\ ~aborted
    /\ UNCHANGED <<run, host0, outcomes, todo>>
    /\ \/ /\ pc = "L61"
          /\ c("sudo apt update", [host EXCEPT !.aptIndex = TRUE], "L62", <<>>)
       \/ /\ pc = "L62"
          /\ c(Str(AptInstallCmd),
               [host EXCEPT !.pkgs = @ \cup PackageArgs(AptInstallCmd)],
               After("install_host_deps"), <<"install_host_deps">>)

\* make_dirs (lines 65-67)
make_dirs ==
    /\ ~aborted
    /\ UNCHANGED <<run, host0, outcomes, todo>>
    /\ \/ /\ pc = "L66"
          /\ c("sudo mkdir -p /opt/toolchains",
               [host EXCEPT !.dirs = @ \cup {ToolchainDir}], "L67", <<>>)
       \/ /\ pc = "L67"
          /\ c("sudo mkdir -p /var/chroot",
               [host EXCEPT !.dirs = @ \cup {"/var/chroot"}],
               After("make_dirs"), <<"make_dirs">>)

\* as MarkerExists, looking for a path that is never there
MarkerNeverExists(h) == FALSE

\* Path("/var/chroot/raspbian_buster_armhf/bin/bash").exists() (line 75): the
\* first debootstrap stage unpacks the base system, bash included
MarkerExists(h) == h.chroot.bash

\* what "apt-get install -y build-essential g++ gcc cmake" leaves in the
\* chroot (line 88): packages already installed are left as they are
InstallChrootPackages(h) ==
    IF h.chroot.pkgs THEN h
    ELSE [h EXCEPT !.chroot.pkgs = TRUE, !.links = ChrootLinks, !.objs = ChrootObjs]

\* the three commands that bootstrap the chroot (lines 76-78)
DebootstrapCmd ==
    "sudo debootstrap --arch armhf --foreign --keyring=/usr/share/keyrings/raspbian-archive-keyring.gpg buster /var/chroot/raspbian_buster_armhf http://ftp.acc.umu.se/mirror/raspbian/raspbian/"

CopyEmulatorCmd == "sudo cp /usr/bin/qemu-arm* /var/chroot/raspbian_buster_armhf/usr/bin"

SecondStageCmd ==
    "sudo chroot /var/chroot/raspbian_buster_armhf /debootstrap/debootstrap --second-stage"

\* the commands that move the two output files into place (lines 111, 116)
MvSpecsCmd == "sudo mv /tmp/gcc-8-armv6-specs.txt /opt/toolchains/"

MvCmakeCmd == "sudo mv /tmp/gcc-8-armv6.cmake /opt/toolchains/"

\* install_chroot (lines 69-88)
install_chroot ==
    /\ ~aborted
    /\ UNCHANGED <<run, host0, outcomes, todo>>
    /\ \/ /\ pc = "L71"
          /\ Statement(host, IF host.keyring THEN "L75" ELSE "L72", <<>>)
       \/ /\ pc = "L72"
          /\ c("cd /tmp && wget http://archive.raspbian.org/raspbian/pool/main/r/raspbian-archive-keyring/raspbian-archive-keyring_20120528.2_all.deb",
               [host EXCEPT !.deb = TRUE], "L73", <<>>)
       \/ /\ pc = "L73"
          /\ c("sudo dpkg -i /tmp/raspbian-archive-keyring_20120528.2_all.deb",
               [host EXCEPT !.keyring = TRUE], "L75", <<>>)
       \/ /\ pc = "L75"
          /\ Statement(host, IF MarkerExists(host) THEN "L80" ELSE "L76", <<>>)
       \/ /\ pc = "L76"
          /\ c(DebootstrapCmd, [host EXCEPT !.chroot.bash = TRUE], "L77", <<>>)
       \/ /\ pc = "L77"
          /\ c(CopyEmulatorCmd, [host EXCEPT !.chroot.qemu = TRUE], "L78", <<>>)
       \/ /\ pc = "L78"
          /\ c(SecondStageCmd, [host EXCEPT !.chroot.stage2 = TRUE], "L80", <<>>)
       \/ /\ pc = "L80"
          /\ Statement([host EXCEPT !.files = WriteTmp(@, "raspbian_buster_armhf",
                                                      schroot_config2(host.user))],
                       "L84", <<>>)
       \* (the owner of a file is not part of the host's state)
       \/ /\ pc = "L84"
          /\ c("sudo chown root:root /tmp/raspbian_buster_armhf", host, "L85", <<>>)
       \/ /\ pc = "L85"
          /\ c("sudo mv /tmp/raspbian_buster_armhf /etc/schroot/chroot.d/",
               [host EXCEPT !.files = Mv(@, "raspbian_buster_armhf", SchrootDir)],
               "L87", <<>>)
       \/ /\ pc = "L87"
          /\ c("sudo schroot -c raspbian_buster_armhf -- apt-get update",
               [host EXCEPT !.chroot.aptIndex = TRUE], "L88", <<>>)
       \/ /\ pc = "L88"
          /\ c("sudo schroot -c raspbian_buster_armhf -- apt-get install -y build-essential g++ gcc cmake",
               InstallChrootPackages(host),
               After("install_chroot"), <<"install_chroot">>)

\* as StagingDir, writing the output files where they belong
StagingInPlace == ToolchainDir

\* where the two output files are written before they are moved
StagingDir == TmpDir

\* write_cmake_toolchain (lines 113-116)
write_cmake_toolchain ==
    /\ ~aborted
    /\ UNCHANGED <<run, host0, outcomes, todo>>
    /\ \/ /\ pc = "L114"
          /\ Statement([host EXCEPT !.files[<<StagingDir, "gcc-8-armv6.cmake">>] =
                                        File(cmake_toolchain_text)],
                       "L116", <<>>)
       \/ /\ pc = "L116"
          /\ c(MvCmakeCmd,
               [host EXCEPT !.files = Mv(@, "gcc-8-armv6.cmake", ToolchainDir)],
               After("write_cmake_toolchain"), <<"write_cmake_toolchain">>)

\* write_gcc_specs (lines 90-111)
write_gcc_specs ==
    /\ ~aborted
    /\ UNCHANGED <<run, host0, outcomes, todo>>
    /\ \/ /\ pc = "L91"
          /\ Statement([host EXCEPT !.files[<<StagingDir, "gcc-8-armv6-specs.txt">>] =
                                        File(RewriteSpecs(host.objs, host.dumpspecs))],
                       "L111", <<>>)
       \/ /\ pc = "L111"
          /\ c(MvSpecsCmd,
               [host EXCEPT !.files = Mv(@, "gcc-8-armv6-specs.txt", ToolchainDir)],
               After("write_gcc_specs"), <<"write_gcc_specs">>)

\* fix_absolute_links (lines 118-133): L119 starts the traversal of
\* <root>/lib, L120 is one iteration of the loop, in any traversal order
fix_absolute_links ==
    /\ ~aborted
    /\ UNCHANGED <<run, host0, outcomes>>
    /\ \/ /\ pc = "L119"
          /\ todo' = DOMAIN host.links
          /\ Statement(host, "L120", <<>>)
       \/ /\ pc = "L120"
          /\ todo = {}
          /\ todo' = todo
          /\ Statement(host, After("fix_absolute_links"), <<"fix_absolute_links">>)
       \/ /\ pc = "L120"
          /\ \E path \in todo :
                /\ ~Eligible(path, host.links[path])
                /\ todo' = todo \ {path}
                /\ Statement(host, "L120", <<>>)
       \/ /\ pc = "L120"
          /\ \E path \in todo :
                /\ Eligible(path, host.links[path])
                /\ todo' = todo \ {path}
                /\ c(LnCommand(path, host.links[path]),
                     [host EXCEPT !.links[path] =
                         Symlink(RelLinkTarget(path.dir, host.links[path].target))],
                     "L120", <<>>)

\* the script (or one function of it) is started again, at statement at,
\* after the invocation before it has ended
Restart(at) ==
    /\ pc = "done" \/ aborted
    /\ run < MaxRuns
    /\ run' = run + 1
    /\ pc' = at
    /\ aborted' = FALSE
    /\ rc' = 0
    /\ cmds' = <<>>
    /\ stages' = <<>>
    /\ todo' = {}
    /\ host0' = host
    /\ outcomes' = Append(outcomes,
                           [ended |-> IF aborted THEN "aborted" ELSE "done",
                            provisioned |-> host0 = ProvisionedHost(host0.user),
                            ncmds |-> Len(cmds)])
    /\ UNCHANGED host

\* the script is run once more (lines 179-180)
Reinvoke == Restart(Entry(Head(MainOrder)))

\* fix_absolute_links is called once more on the tree it has left
FixAgain == Restart(Entry("fix_absolute_links"))

Start(at, h) ==
    /\ pc = at
    /\ run = 1
    /\ aborted = FALSE
    /\ rc = 0
    /\ cmds = <<>>
    /\ stages = <<>>
    /\ todo = {}
    /\ host = h
    /\ host0 = h
    /\ outcomes = <<>>

---------------------------------------------------------------------------
(* Spec: the whole script, on a host it has never run on or on one it has
   fully provisioned; any command may fail; the script may be run again *)

Init ==
    \E u \in Users : \E h \in {FreshHost(u), ProvisionedHost(u)} :
        Start(Entry(Head(MainOrder)), h)

Next ==
    \/ install_host_deps
    \/ install_chroot
    \/ make_dirs
    \/ write_cmake_toolchain
    \/ write_gcc_specs
    \/ fix_absolute_links
    \/ Reinvoke

Spec == Init /\ [][Next]_vars

---------------------------------------------------------------------------
(* SpecLinks: fix_absolute_links on a drawn tree under <root>/lib, called
   up to MaxRuns times *)

\* directories nested under the chroot root, one per level
DirChain == <<"lib", "arm-linux-gnueabihf", "gcc", "8", "plugin", "include">>

LinkDirs == {RootParts \o SubSeq(DirChain, 1, d) : d \in 1..MaxDepth}

LinkNames == {libc_so, libc_so_6, libc_so_6_1, libm_a, libso}

\* a link named libc.so at every level, and every name at the top level
LinkPaths ==
    {[dir |-> d, name |-> libc_so] : d \in LinkDirs}
        \cup {[dir |-> LibDir, name |-> n] : n \in LinkNames}

AbsoluteTargets ==
    { <<"/", "lib", "arm-linux-gnueabihf", "libc.so.6">>, <<"/", "libc.so.6">> }

LinkEntries ==
    {RegularFile, Symlink(<<"libc.so.6">>)} \cup {Symlink(t) : t \in AbsoluteTargets}

RECURSIVE SubsetsUpTo(_, _)
\* the subsets of S of at most k elements
SubsetsUpTo(S, k) ==
    IF k = 0 THEN {{}}
    ELSE LET smaller == SubsetsUpTo(S, k - 1) IN
         smaller \cup {T \cup {x} : T \in smaller, x \in S}

Trees == UNION {[S -> LinkEntries] : S \in SubsetsUpTo(LinkPaths, MaxLinks)}

InitLinks ==
    \E u \in Users : \E t \in Trees :
        Start(Entry("fix_absolute_links"), [ProvisionedHost(u) EXCEPT !.links = t])

NextLinks ==
    \/ fix_absolute_links
    \/ FixAgain

SpecLinks == InitLinks /\ [][NextLinks]_vars

---------------------------------------------------------------------------
(* SpecSpecs: write_gcc_specs on a drawn -dumpspecs text and a drawn set of
   object files in the chroot *)

a_o == <<"a", ".", "o">>
b_o == <<"b", ".", "o">>

\* the pieces a drawn text is made of
SpecPieces == {a_o, b_o, <<"%", "D">>, <<" ">>, <<"a">>, <<"%">>}

RECURSIVE Texts(_)
\* the concatenations of at most n pieces
Texts(n) ==
    IF n = 0 THEN {<<>>}
    ELSE Texts(n - 1) \cup {t \o q : t \in Texts(n - 1), q \in SpecPieces}

\* the files named a.o the chroot may hold; none is named b.o
ObjFile1 == [dir |-> <<"usr", "lib">>, name |-> a_o]
ObjFile2 == [dir |-> <<"usr", "lib", "gcc">>, name |-> a_o]

\* the chroot's object files in the order a traversal yields them
ObjTrees ==
    { <<>>, <<ObjFile1>>, <<ObjFile2>>, <<ObjFile1, ObjFile2>>, <<ObjFile2, ObjFile1>> }

InitSpecs ==
    \E u \in Users : \E t \in Texts(MaxLen) : \E o \in ObjTrees :
        Start(Entry("write_gcc_specs"),
              [ProvisionedHost(u) EXCEPT !.objs = o, !.dumpspecs = t])

NextSpecs == write_gcc_specs

SpecSpecs == InitSpecs /\ [][NextSpecs]_vars

---------------------------------------------------------------------------
(* Properties *)

InCmds(cmd) == \E k \in 1..Len(cmds) : cmds[k] = cmd

RECURSIVE Resolve(_, _)
\* the directory entry a relative path reaches from directory cur, every
\* directory on the way being a real directory: ".." goes to the parent
Resolve(cur, rel) ==
    IF rel = <<>> THEN cur
    ELSE IF Head(rel) = ".."
         THEN Resolve(IF Len(cur) > 1 THEN SubSeq(cur, 1, Len(cur) - 1) ELSE cur,
                      Tail(rel))
         ELSE Resolve(Append(cur, Head(rel)), Tail(rel))

\* the file an absolute target denotes with the chroot root as "/"
InChroot(target) == Resolve(RootParts, Tail(target))

\* the link at p has been rewritten in this call of fix_absolute_links
Rewritten(p) == host.links[p] # host0.links[p]

EndsWith(name, suffix) ==
    /\ Len(name) >= Len(suffix)
    /\ SubSeq(name, Len(name) - Len(suffix) + 1, Len(name)) = suffix

\* the name ends with .so, with .so.<digits> or with .a
HasLibrarySuffix(name) ==
    \/ EndsWith(name, <<".", "s", "o">>)
    \/ EndsWith(name, <<".", "a">>)
    \/ \E n \in 1..Len(name) :
          /\ \A k \in (Len(name) - n + 1)..Len(name) : name[k] \in Digits
          /\ EndsWith(SubSeq(name, 1, Len(name) - n), <<".", "s", "o", ".">>)

\* the entry the claims are about: a symbolic link with a library name
\* whose target starts at "/"
AbsoluteLibraryLink(p, entry) ==
    /\ entry.symlink
    /\ HasLibrarySuffix(p.name)
    /\ entry.target # <<>> /\ entry.target[1] = "/"

\* C1: every eligible link (a symlink named *.so, *.so.<digits> or *.a, with
\* an absolute target T) that fix_absolute_links has rewritten, and every
\* one once the traversal is over, has a relative target which, resolved
\* from the link's directory, reaches <root>/T; at every depth of the tree.
C1_RelativeTargetReachesSameFile ==
    \A p \in DOMAIN host0.links :
        (AbsoluteLibraryLink(p, host0.links[p]) /\ (Rewritten(p) \/ pc = "done")) =>
            /\ host.links[p].symlink
            /\ host.links[p].target # <<>> /\ host.links[p].target[1] # "/"
            /\ Resolve(p.dir, host.links[p].target) = InChroot(host0.links[p].target)

C1_Witness ==
    \E p \in DOMAIN host0.links :
        /\ AbsoluteLibraryLink(p, host0.links[p])
        /\ Rewritten(p)
        /\ Len(p.dir) = Len(RootParts) + MaxDepth

\* C2: once a command run by c() has exited non-zero, the invocation is
\* over: the failing command changes nothing, and from then on no command
\* is executed, no statement is reached, no function returns and the host
\* stays as the earlier commands left it.
C2_FailureEndsRun ==
    [][ /\ (rc' # 0 /\ run' = run) =>
              (host' = host /\ stages' = stages /\ pc' # "done")
        /\ (rc # 0 /\ run' = run) => UNCHANGED <<cmds, host, pc, stages>> ]_vars

C2_Witness ==
    /\ rc # 0
    /\ pc = "L77"
    /\ stages = <<"install_host_deps">>
    /\ host.chroot.bash

\* the stage of the orchestrator each function of main() completes
StageOf(fn) ==
    CASE fn = "install_host_deps"     -> "host-deps-installed"
      [] fn = "make_dirs"             -> "directories-ready"
      [] fn = "install_chroot"        -> "chroot-ready"
      [] fn = "write_cmake_toolchain" -> "descriptor-written"
      [] fn = "write_gcc_specs"       -> "specs-written"
      [] fn = "fix_absolute_links"    -> "symlinks-fixed"

StageOrder ==
    << "host-deps-installed", "directories-ready", "chroot-ready",
       "descriptor-written", "specs-written", "symlinks-fixed" >>

ChrootLines == {"L71", "L72", "L73", "L75", "L76", "L77", "L78", "L80", "L84", "L85", "L87", "L88"}

\* C3: the stages complete in the order host-deps-installed,
\* directories-ready, chroot-ready, descriptor-written, specs-written,
\* symlinks-fixed, and the chroot stage begins only once the directories
\* stage has completed.
C3_StagesInOrder ==
    /\ \A k \in 1..Len(stages) : StageOf(stages[k]) = StageOrder[k]
    /\ pc \in ChrootLines => \E k \in 1..Len(stages) : stages[k] = "make_dirs"

\* C4: a re-invocation that follows an aborted run executes every chroot
\* bootstrap command the aborted run had not completed, and, when none of
\* its commands fails, ends on the fully provisioned host.
C4_ReinvocationCompletes ==
    (run > 1 /\ outcomes[Len(outcomes)].ended = "aborted") =>
        /\ pc = "L80" =>
              /\ ~host0.chroot.bash => InCmds(DebootstrapCmd)
              /\ ~host0.chroot.qemu => InCmds(CopyEmulatorCmd)
              /\ ~host0.chroot.stage2 => InCmds(SecondStageCmd)
        /\ pc = "done" => host = ProvisionedHost(host.user)

OutputFiles ==
    { <<ToolchainDir, "gcc-8-armv6.cmake">>, <<ToolchainDir, "gcc-8-armv6-specs.txt">> }

\* C5: an invocation that starts on a fully provisioned host executes none
\* of the chroot bootstrap commands, and when it ends without a failure it
\* has moved the descriptor and the specs document into the output
\* directory and each holds exactly what it held before.
C5_SecondRunRewritesIdentically ==
    host0 = ProvisionedHost(host0.user) =>
        /\ ~InCmds(DebootstrapCmd) /\ ~InCmds(CopyEmulatorCmd) /\ ~InCmds(SecondStageCmd)
        /\ pc = "done" =>
              /\ InCmds(MvCmakeCmd) /\ InCmds(MvSpecsCmd)
              /\ \A f \in OutputFiles :
                    host.files[f].exists /\ host.files[f] = host0.files[f]

C5_Witness ==
    /\ run = 2
    /\ pc = "done"
    /\ host0 = ProvisionedHost(host0.user)
    /\ outcomes[1].ended = "done"
    /\ outcomes[1].provisioned

\* the link of end-to-end scenario 1 and its absolute target
Scenario1Link == [dir |-> ArchLibDir, name |-> libc_so]

Scenario1Target == <<"/", "lib", "arm-linux-gnueabihf", "libc.so.6">>

Scenario1Applies ==
    /\ Scenario1Link \in DOMAIN host0.links
    /\ host0.links[Scenario1Link] = Symlink(Scenario1Target)
    /\ (Rewritten(Scenario1Link) \/ pc = "done")

\* C6 as stated: the link <root>/lib/arm-linux-gnueabihf/libc.so with target
\* /lib/arm-linux-gnueabihf/libc.so.6 is rewritten to ../libc.so.6.
C6_RewrittenToParentLibc ==
    Scenario1Applies => host.links[Scenario1Link].target = <<"..", "libc.so.6">>

\* C6 amended: that link is rewritten to
\* ../../lib/arm-linux-gnueabihf/libc.so.6, by the command
\* "cd <root>/lib/arm-linux-gnueabihf && sudo ln -fs <that target> libc.so".
C6_RewrittenToRootRelative ==
    Scenario1Applies =>
        /\ host.links[Scenario1Link].target =
              <<"..", "..", "lib", "arm-linux-gnueabihf", "libc.so.6">>
        /\ InCmds("cd /var/chroot/raspbian_buster_armhf/lib/arm-linux-gnueabihf && sudo ln -fs ../../lib/arm-linux-gnueabihf/libc.so.6 libc.so")

C6_Witness == Scenario1Applies /\ Rewritten(Scenario1Link)

\* C7: a step of fix_absolute_links leaves every entry that is not a
\* symlink, or whose name does not match, or whose target is relative, as it
\* is; a command is issued only for an eligible entry, and it is that
\* entry's ln command; and a call that follows a completed call changes
\* nothing and issues no command.
C7_OnlyEligibleRewritten ==
    [][ run' = run =>
          /\ \A p \in DOMAIN host.links :
                ~AbsoluteLibraryLink(p, host.links[p]) => host'.links[p] = host.links[p]
          /\ cmds' # cmds =>
                \E p \in todo :
                    /\ AbsoluteLibraryLink(p, host.links[p])
                    /\ cmds' = Append(cmds, LnCommand(p, host.links[p]))
          /\ (outcomes # <<>> /\ outcomes[Len(outcomes)].ended = "done") =>
                (host' = host /\ cmds' = cmds) ]_vars

C7_Witness ==
    /\ run = 2
    /\ pc = "done"
    /\ outcomes[1].ended = "done"
    /\ outcomes[1].ncmds > 0
    /\ \E p \in DOMAIN host.links : ~host.links[p].symlink

\* what separates the tokens of a specs text: a blank, a "%", the text of
\* the library search paths
Delimiters == {" ", "%", ld_search_paths[1]}

RECURSIVE Split(_, _)
\* the tokens of a text, between its delimiters (cur is the token so far)
Split(s, cur) ==
    IF s = <<>> THEN <<cur>>
    ELSE IF Head(s) \in Delimiters THEN <<cur>> \o Split(Tail(s), <<>>)
    ELSE Split(Tail(s), Append(cur, Head(s)))

\* a token that is word characters followed by ".o" and nothing else
IsObjToken(t) ==
    /\ Len(t) >= 3
    /\ t[Len(t) - 1] = "." /\ t[Len(t)] = "o"
    /\ \A k \in 1..(Len(t) - 2) : t[k] \in WordChars

\* the places of the chroot that hold a file of this name
Locations(name) == {k \in 1..Len(host.objs) : host.objs[k].name = name}

\* the specs text written in this call: staged at L111, moved into place after
WrittenSpecs ==
    IF pc = "L111" /\ ~aborted THEN host.files[<<TmpDir, "gcc-8-armv6-specs.txt">>]
    ELSE host.files[<<ToolchainDir, "gcc-8-armv6-specs.txt">>]

SpecsWritten == pc = "L111" \/ pc = After("write_gcc_specs")

\* C8: in the text write_gcc_specs writes, every token of the specs text
\* (the dumped text with its %D placeholders filled in) that is word
\* characters followed by ".o" stands replaced by the absolute path of the
\* file of that name when the chroot holds exactly one, and stands as it was
\* when the chroot holds none; the call ends without an error either way.
C8_ObjectTokensResolved ==
    (SpecsWritten /\ ~aborted) =>
        LET tin  == Split(ReplaceD(host.dumpspecs), <<>>)
            tout == Split(WrittenSpecs.data, <<>>)
        IN  /\ WrittenSpecs.exists
            /\ Len(tout) = Len(tin)
            /\ \A k \in 1..Len(tin) :
                  IsObjToken(tin[k]) =>
                      /\ Cardinality(Locations(tin[k])) = 1 =>
                            \E j \in Locations(tin[k]) :
                                tout[k] = << "/var/chroot/raspbian_buster_armhf/"
                                             \o JoinWith(host.objs[j].dir, "/")
                                             \o "/" \o Str(tin[k]) >>
                      /\ Locations(tin[k]) = {} => tout[k] = tin[k]

C8_Witness ==
    /\ pc = "L111"
    /\ host.dumpspecs = <<"%">> \o a_o \o <<" ">> \o b_o
    /\ host.objs = <<ObjFile2>>
    /\ host.files[<<TmpDir, "gcc-8-armv6-specs.txt">>].data =
          <<"%", "/var/chroot/raspbian_buster_armhf/usr/lib/gcc/a.o", " ", "b", ".", "o">>

\* C9 as stated: every change of the host is made by a command run by c().
C9_EveryChangeThroughC ==
    [][ host' # host => Len(cmds') = Len(cmds) + 1 ]_vars

\* the host without its files under /tmp
OutsideTmp(h) ==
    [h EXCEPT !.files = [f \in FilePaths |-> IF f[1] = TmpDir THEN NoFile ELSE h.files[f]]]

\* C9 amended: every change of the host outside /tmp is made by a command
\* run by c(); what the script writes itself, with open(), are its staging
\* files in /tmp.
C9_ChangesOutsideTmpThroughC ==
    [][ OutsideTmp(host') # OutsideTmp(host) => Len(cmds') = Len(cmds) + 1 ]_vars

C9_Witness ==
    /\ pc = "L116"
    /\ host0 = FreshHost(host0.user)
    /\ host.files[<<TmpDir, "gcc-8-armv6.cmake">>] = File(cmake_toolchain_text)
    /\ host.files[<<SchrootDir, "raspbian_buster_armhf">>].exists

\* the packages the header comment (lines 7-9) says the script installs
HeaderPackages ==
    { "gcc-8-arm-linux-gnueabihf", "g++-8-arm-linux-gnueabihf",
      "qemu-user-static", "binfmt-support", "debootstrap", "schroot" }

\* every package name written in the literals of lines 62-63
IntendedPackages == HeaderPackages \cup {"cmake", "build-essential"}

\* C10: once install_host_deps has returned, the package manager has been
\* asked for each of the header's packages under its own name, and for no
\* name the script does not mean to install.
C10_PackagesRequestedByName ==
    (\E k \in 1..Len(stages) : stages[k] = "install_host_deps") =>
        /\ HeaderPackages \subseteq host.pkgs
        /\ host.pkgs \subseteq IntendedPackages

====
